---- MODULE Spec2Model ----
(***************************************************************************)
(* Model of the FlowGuard vision benchmark scripts:                        *)
(*   scripts/create_benchmark_dataset.py   (dataset synthesizer)           *)
(*   scripts/evaluate_vision_accuracy.py   (benchmark evaluator)           *)
(*                                                                         *)
(* The synthesizer is modelled step by step (one action per iteration of   *)
(* its loop, the external generator's answer being the input of the step). *)
(* The evaluator is a pure function of the two documents it loads and is   *)
(* modelled as operators applied by one action.                            *)
(*                                                                         *)
(* Abstractions: created_at timestamps are left out of the examples; the   *)
(* rates of the report (floats in the code) are exact fractions in lowest  *)
(* terms.                                                                *)
(***************************************************************************)
EXTENDS Integers, Sequences, FiniteSets, TLC

\* ---------------------------------------------------------------- bounds
MaxCount == 6        \* largest --count the synthesizer is run with
MaxEvalCount == 2    \* largest dataset that is saved and evaluated
MaxPreds == 2        \* largest number of predictions in a results document

\* ------------------------------------------------------------- synthesizer
categories ==
    <<"accessibility", "layout", "responsiveness", "ux-dark-patterns", "security">>

Difficulties == {"easy", "medium", "hard"}

\* category = categories[i % len(categories)], i 0-based
CategoryAt(i) == categories[(i % Len(categories)) + 1]

\* f"{n:03d}": decimal digits, zero-padded to a minimum width of 3
Format03d(n) ==
    IF n < 10 THEN "00" \o ToString(n)
    ELSE IF n < 100 THEN "0" \o ToString(n)
    ELSE ToString(n)

\* f"example_{n:03d}"
FormatId(n) == "example_" \o Format03d(n)

\* f"benchmarks/screenshots/{category}_{n}.png"
ScreenshotPath(category, n) ==
    "benchmarks/screenshots/" \o category \o "_" \o ToString(n) \o ".png"

mock_data ==
    [c \in {categories[k] : k \in 1..Len(categories)} |->
        CASE c = "accessibility" ->
               [assertion  |-> "The checkout button has sufficient color contrast (WCAG AA)",
                issues     |-> <<"Button contrast ratio is 2.1:1, below WCAG AA requirement of 4.5:1">>,
                difficulty |-> "medium"]
          [] c = "layout" ->
               [assertion  |-> "The navigation menu is visible without scrolling",
                issues     |-> <<"Navigation menu is pushed below fold due to large hero image">>,
                difficulty |-> "easy"]
          [] c = "responsiveness" ->
               [assertion  |-> "The form fields are fully visible on mobile (375px width)",
                issues     |-> <<"Input labels are cut off by parent container overflow">>,
                difficulty |-> "medium"]
          [] c = "ux-dark-patterns" ->
               [assertion  |-> "The unsubscribe button is as prominent as the subscribe button",
                issues     |-> <<"Unsubscribe button is hidden in footer with 8px font size">>,
                difficulty |-> "hard"]
          [] c = "security" ->
               [assertion  |-> "The password input field obscures entered characters",
                issues     |-> <<"Password field shows plain text characters">>,
                difficulty |-> "easy"]]

\* The dictionary both strategies append (created_at left out).
MakeExample(i, category, assertion, issues, difficulty) ==
    [id              |-> FormatId(i + 1),
     screenshot_path |-> ScreenshotPath(category, i + 1),
     assertion       |-> assertion,
     ground_truth    |-> [verdict |-> FALSE, expected_issues |-> issues],
     metadata        |-> [category |-> category, difficulty |-> difficulty]]

\* Body of the loop of generate_mock_examples, i 0-based.
MockExampleAt(i) ==
    LET category == CategoryAt(i)
        data     == mock_data[category]
    IN  MakeExample(i, category, data.assertion, data.issues, data.difficulty)

generate_mock_examples(n) == [j \in 1..n |-> MockExampleAt(j - 1)]

\* generate_mock_example(index, category): both parameters are unused,
\* the result is the first element of generate_mock_examples(1).
generate_mock_example(index, category) ==
    LET mock == generate_mock_examples(1)
    IN  IF Len(mock) > 0 THEN mock[1] ELSE << >>

\* ---- answers of the external generator (client.messages.create + json.loads)
\* kind "error": the request raises;  kind "text": response.content[0].text
\* is not JSON;  kind "json": json.loads returns the dictionary `data`.
GeneratedAssertion == "generated assertion"
GeneratedIssues == <<"generated issue">>

Responses ==
    {[kind |-> "error"], [kind |-> "text"]}
    \cup {[kind |-> "json",
           data |-> [assertion |-> GeneratedAssertion,
                     expected_issues |-> GeneratedIssues]]}
    \cup {[kind |-> "json",
           data |-> [assertion |-> GeneratedAssertion,
                     expected_issues |-> GeneratedIssues,
                     difficulty |-> d]] : d \in {"easy", "hard", "extreme"}}

RequiredKeys == {"assertion", "expected_issues", "difficulty"}

\* The try block reaches examples.append: no exception from the request,
\* from json.loads, or from data["assertion"], data["expected_issues"],
\* data["difficulty"] (KeyError).
TrySucceeds(resp) ==
    /\ resp.kind = "json"
    /\ RequiredKeys \subseteq DOMAIN resp.data

\* try branch, lines 58-71
ExternalAppend(exs, i, category, data) ==
    Append(exs, MakeExample(i, category, data.assertion,
                            data.expected_issues, data.difficulty))

\* Variant: the failing position is skipped instead of filled.
FallbackAppend_Skip(exs, i, category) == exs

\* except branch, line 75
FallbackAppend(exs, i, category) ==
    Append(exs, generate_mock_example(i + 1, category))

\* ---------------------------------------------------------------- evaluator
\* Variant: the last prediction carrying the id instead of the first.
FirstMatch_Last(preds, example_id) ==
    LET hits == {k \in 1..Len(preds) : preds[k].example_id = example_id}
    IN  IF hits = {} THEN << >>
        ELSE <<preds[CHOOSE k \in hits : \A m \in hits : k >= m]>>

\* next((r for r in results['predictions'] if r['example_id'] == example_id), None)
\* as a sequence: << >> for None, <<r>> for the prediction found.
FirstMatch(preds, example_id) ==
    LET hits == {k \in 1..Len(preds) : preds[k].example_id = example_id}
    IN  IF hits = {} THEN << >>
        ELSE <<preds[CHOOSE k \in hits : \A m \in hits : k <= m]>>

\* The loop of evaluate_results (lines 27-40): the two parallel lists.
CollectPairs(exs, preds) ==
    LET acc[k \in 0..Len(exs)] ==
            IF k = 0 THEN [y_true |-> << >>, y_pred |-> << >>]
            ELSE LET result == FirstMatch(preds, exs[k].id)
                 IN  IF result = << >> THEN acc[k - 1]
                     ELSE [y_true |-> Append(acc[k - 1].y_true,
                                             exs[k].ground_truth.verdict),
                           y_pred |-> Append(acc[k - 1].y_pred,
                                             result[1].predicted_verdict)]
    IN  acc[Len(exs)]

RECURSIVE Gcd(_, _)
Gcd(a, b) == IF b = 0 THEN a ELSE Gcd(b, a % b)

\* num / den with zero_division=0, as a fraction in lowest terms
Frac(num, den) ==
    IF den = 0 \/ num = 0 THEN [num |-> 0, den |-> 1]
    ELSE [num |-> num \div Gcd(num, den), den |-> den \div Gcd(num, den)]

Zero == [num |-> 0, den |-> 1]

CountIdx(y_true, y_pred, t, p) ==
    Cardinality({k \in 1..Len(y_true) : y_true[k] = t /\ y_pred[k] = p})

\* sklearn.metrics.accuracy_score: fraction of positions that agree
accuracy_score(y_true, y_pred) ==
    Frac(Cardinality({k \in 1..Len(y_true) : y_true[k] = y_pred[k]}),
         Len(y_true))

\* sklearn.metrics.precision_score(average='binary', pos_label=1, zero_division=0)
precision_score(y_true, y_pred) ==
    Frac(CountIdx(y_true, y_pred, TRUE, TRUE),
         Cardinality({k \in 1..Len(y_pred) : y_pred[k] = TRUE}))

\* sklearn.metrics.recall_score(average='binary', pos_label=1, zero_division=0)
recall_score(y_true, y_pred) ==
    Frac(CountIdx(y_true, y_pred, TRUE, TRUE),
         Cardinality({k \in 1..Len(y_true) : y_true[k] = TRUE}))

\* sklearn.metrics.f1_score: harmonic mean of precision and recall,
\* 2*tp / (2*tp + fp + fn), 0 on a zero denominator
f1_score(y_true, y_pred) ==
    Frac(2 * CountIdx(y_true, y_pred, TRUE, TRUE),
         Cardinality({k \in 1..Len(y_pred) : y_pred[k] = TRUE})
           + Cardinality({k \in 1..Len(y_true) : y_true[k] = TRUE}))

\* sklearn unique_labels(y_true, y_pred): the labels that occur, sorted
\* (False < True)
unique_labels(y_true, y_pred) ==
    LET present == {y_true[k] : k \in 1..Len(y_true)}
                   \cup {y_pred[k] : k \in 1..Len(y_pred)}
    IN  (IF FALSE \in present THEN <<FALSE>> ELSE << >>)
        \o (IF TRUE \in present THEN <<TRUE>> ELSE << >>)

\* sklearn.metrics.confusion_matrix(y_true, y_pred): rows are true labels,
\* columns predicted labels, both over unique_labels
confusion_matrix(y_true, y_pred) ==
    LET labels == unique_labels(y_true, y_pred)
    IN  [a \in 1..Len(labels) |->
            [b \in 1..Len(labels) |->
                CountIdx(y_true, y_pred, labels[a], labels[b])]]

\* numpy ravel: row-major flattening
ravel(cm) ==
    LET n == Len(cm)
    IN  [q \in 1..(n * n) |-> cm[((q - 1) \div n) + 1][((q - 1) % n) + 1]]

ZeroReport ==
    [accuracy |-> Zero, precision |-> Zero, recall |-> Zero, f1_score |-> Zero,
     true_positives |-> 0, false_positives |-> 0,
     true_negatives |-> 0, false_negatives |-> 0,
     total_examples |-> 0]

\* Variant: the four entries unpacked in the order tp, fp, fn, tn.
Unpack_Reversed(flat) ==
    [tn |-> flat[4], fp |-> flat[2], fn |-> flat[3], tp |-> flat[1]]

\* tn, fp, fn, tp = cm.ravel()   (for a flattened matrix of four entries)
Unpack(flat) ==
    [tn |-> flat[1], fp |-> flat[2], fn |-> flat[3], tp |-> flat[4]]

\* lines 55-75; `tn, fp, fn, tp = cm.ravel()` raises ValueError unless the
\* flattened matrix has exactly four entries
ComputeMetrics(y_true, y_pred) ==
    LET flat == ravel(confusion_matrix(y_true, y_pred))
    IN  IF Len(flat) # 4
        THEN [status |-> "raised", error |-> "ValueError"]
        ELSE [status |-> "returned",
              report |->
                [accuracy  |-> accuracy_score(y_true, y_pred),
                 precision |-> precision_score(y_true, y_pred),
                 recall    |-> recall_score(y_true, y_pred),
                 f1_score  |-> f1_score(y_true, y_pred),
                 true_positives  |-> Unpack(flat).tp,
                 false_positives |-> Unpack(flat).fp,
                 true_negatives  |-> Unpack(flat).tn,
                 false_negatives |-> Unpack(flat).fn,
                 total_examples  |-> Len(y_true)]]

\* Variant: the metrics are computed without the empty-list test of line 42.
evaluate_results_NoEmptyTest(ds, results) ==
    LET pairs == CollectPairs(ds.examples, results.predictions)
    IN  ComputeMetrics(pairs.y_true, pairs.y_pred)

\* evaluate_results(dataset, results), lines 23-75
evaluate_results(ds, results) ==
    LET pairs == CollectPairs(ds.examples, results.predictions)
    IN  IF Len(pairs.y_true) = 0
        THEN [status |-> "returned", report |-> ZeroReport]
        ELSE ComputeMetrics(pairs.y_true, pairs.y_pred)

\* ---- results documents of the model under test
AbsentId == "example_999"
PredictionIds == {FormatId(n) : n \in 1..MaxEvalCount} \cup {AbsentId}
Predictions == [example_id : PredictionIds, predicted_verdict : BOOLEAN]

SeqsUpTo(S, n) == UNION {[1..m -> S] : m \in 0..n}

\* save_dataset: the document written to the output path (created_at left out)
DatasetDocument(exs) ==
    [version |-> "1.0", total_examples |-> Len(exs), examples |-> exs]

VARIABLES
    pc,        \* position of the synthesizer: start, loop, returned, exit
    count,     \* --count
    apiKey,    \* whether ANTHROPIC_API_KEY is set
    i,         \* loop variable of generate_synthetic_examples (0-based)
    examples,  \* the list being built / returned
    origin,    \* history: how each position was produced
    epc,       \* evaluator side: nofile, file, done
    dataset,   \* the dataset document on disk
    predictions, \* results['predictions'] of the evaluated run
    outcome    \* what evaluate_results did: returned a report, or raised

synth == <<pc, count, apiKey, i, examples, origin>>
evalv == <<epc, dataset, predictions, outcome>>
vars == <<pc, count, apiKey, i, examples, origin, epc, dataset, predictions, outcome>>

Init ==
    /\ pc = "start"
    /\ count \in 0..MaxCount
    /\ apiKey \in BOOLEAN
    /\ i = 0
    /\ examples = << >>
    /\ origin = << >>
    /\ epc = "nofile"
    /\ dataset = DatasetDocument(<< >>)
    /\ predictions = << >>
    /\ outcome = [status |-> "none"]

\* lines 19-22: no key, the whole run uses the mock table
UseMock ==
    /\ pc = "start"
    /\ ~apiKey
    /\ examples' = generate_mock_examples(count)
    /\ origin' = [j \in 1..count |-> "mock"]
    /\ pc' = "returned"
    /\ UNCHANGED <<count, apiKey, i, evalv>>

\* lines 24-27
BeginLoop ==
    /\ pc = "start"
    /\ apiKey
    /\ examples' = << >>
    /\ i' = 0
    /\ pc' = "loop"
    /\ UNCHANGED <<count, apiKey, origin, evalv>>

\* one iteration whose try block completes
ExternalStep(resp) ==
    /\ pc = "loop"
    /\ i < count
    /\ TrySucceeds(resp)
    /\ examples' = ExternalAppend(examples, i, CategoryAt(i), resp.data)
    /\ origin' = Append(origin, "external")
    /\ i' = i + 1
    /\ UNCHANGED <<pc, count, apiKey, evalv>>

\* one iteration whose try block raises: except Exception
FallbackStep(resp) ==
    /\ pc = "loop"
    /\ i < count
    /\ ~TrySucceeds(resp)
    /\ examples' = FallbackAppend(examples, i, CategoryAt(i))
    /\ origin' = Append(origin, "fallback")
    /\ i' = i + 1
    /\ UNCHANGED <<pc, count, apiKey, evalv>>

\* line 77
Return ==
    /\ pc = "loop"
    /\ i = count
    /\ pc' = "returned"
    /\ UNCHANGED <<count, apiKey, i, examples, origin, evalv>>

\* main of create_benchmark_dataset.py, lines 161-162, and save_dataset
SaveDataset ==
    /\ pc = "returned"
    /\ Len(examples) <= MaxEvalCount
    /\ epc = "nofile"
    /\ dataset' = DatasetDocument(examples)
    /\ epc' = "file"
    /\ pc' = "exit"
    /\ UNCHANGED <<count, apiKey, i, examples, origin, predictions, outcome>>

\* Manual labelling of the saved dataset ("We'll manually label these"):
\* a reviewer sets the verdict of one example to true.
Relabel(p) ==
    /\ epc = "file"
    /\ p \in 1..Len(dataset.examples)
    /\ dataset.examples[p].ground_truth.verdict = FALSE
    /\ dataset' = [dataset EXCEPT !.examples[p].ground_truth.verdict = TRUE]
    /\ UNCHANGED <<synth, epc, predictions, outcome>>

\* main of evaluate_vision_accuracy.py, lines 85-88, on a results document
Evaluate(preds) ==
    /\ epc = "file"
    /\ predictions' = preds
    /\ outcome' = evaluate_results(dataset, [predictions |-> preds])
    /\ epc' = "done"
    /\ UNCHANGED <<synth, dataset>>

Next ==
    \/ UseMock
    \/ BeginLoop
    \/ \E resp \in Responses : ExternalStep(resp)
    \/ \E resp \in Responses : FallbackStep(resp)
    \/ Return
    \/ SaveDataset
    \/ \E p \in 1..MaxEvalCount : Relabel(p)
    \/ \E preds \in SeqsUpTo(Predictions, MaxPreds) : Evaluate(preds)

Spec == Init /\ [][Next]_vars

\* The loop of the synthesizer is sequential and every request returns or
\* raises, so an iteration that can be taken is eventually taken.
SynthStep ==
    \/ BeginLoop
    \/ \E resp \in Responses : ExternalStep(resp)
    \/ \E resp \in Responses : FallbackStep(resp)
    \/ Return

FairSpec == Spec /\ WF_vars(SynthStep)

\* =================================================================== claims
Positions == 1..Len(examples)

\* The leading prediction of a results document for an id, << >> if none;
\* stated over the subsequence of the predictions that carry the id.
Leading(preds, id) ==
    LET same == SelectSeq(preds, LAMBDA r : r.example_id = id)
    IN  IF same = << >> THEN << >> ELSE <<Head(same)>>

\* Positions of the dataset that have a prediction, and the counts over the
\* (ground truth, leading prediction) pairs.
MatchedPos == {k \in 1..Len(dataset.examples) :
                  Leading(predictions, dataset.examples[k].id) # << >>}
Actual(k) == dataset.examples[k].ground_truth.verdict
Predicted(k) == Leading(predictions, dataset.examples[k].id)[1].predicted_verdict
PairCount(t, p) == Cardinality({k \in MatchedPos : Actual(k) = t /\ Predicted(k) = p})

\* C1: all examples of one call of generate_synthetic_examples have pairwise
\* distinct ids, the example at 0-based position i carrying the id built
\* from i+1.
C1_UniqueIds ==
    /\ \A p \in Positions : examples[p].id = FormatId(p)
    /\ \A p, q \in Positions : p # q => examples[p].id # examples[q].id

\* C2: the example at 0-based position i has category categories[i mod 5],
\* so the category frequencies differ by at most 1, whatever strategy
\* produced each position.
C2_RoundRobin ==
    /\ \A p \in Positions :
          examples[p].metadata.category = categories[((p - 1) % 5) + 1]
    /\ \A c, d \in 1..Len(categories) :
          Cardinality({p \in Positions : examples[p].metadata.category = categories[c]})
          <= Cardinality({p \in Positions : examples[p].metadata.category = categories[d]}) + 1

\* C3: when every matched pair is (actual false, predicted false), n >= 1
\* pairs, evaluate_results returns accuracy 1.0, precision, recall and f1 0,
\* TP = FP = FN = 0 and TN = n; when every matched pair is (true, true) it
\* returns too, with FP = FN = TN = 0.
C3_OneClassNoRaise ==
    (epc = "done" /\ MatchedPos # {}) =>
        /\ (\A k \in MatchedPos : ~Actual(k) /\ ~Predicted(k)) =>
              /\ outcome.status = "returned"
              /\ outcome.report.accuracy = [num |-> 1, den |-> 1]
              /\ outcome.report.precision.num = 0
              /\ outcome.report.recall.num = 0
              /\ outcome.report.f1_score.num = 0
              /\ outcome.report.true_positives = 0
              /\ outcome.report.false_positives = 0
              /\ outcome.report.false_negatives = 0
              /\ outcome.report.true_negatives = Cardinality(MatchedPos)
        /\ (\A k \in MatchedPos : Actual(k) /\ Predicted(k)) =>
              /\ outcome.status = "returned"
              /\ outcome.report.false_positives = 0
              /\ outcome.report.false_negatives = 0
              /\ outcome.report.true_negatives = 0

\* C4: generate_synthetic_examples runs to completion and returns exactly
\* count examples; a failure at a position appends exactly one example at
\* that position, and no step changes or removes an example already placed.
C4_Shape ==
    /\ pc \in {"returned", "exit"} => Len(examples) = count
    /\ pc = "loop" => Len(examples) = i /\ i <= count
    /\ Len(origin) = Len(examples)

C4_StepKeeps ==
    /\ Len(examples) <= Len(examples')
    /\ \A p \in Positions : examples'[p] = examples[p]
    /\ pc = "loop" => Len(examples') <= Len(examples) + 1

C4_LengthExactlyCount ==
    /\ []C4_Shape
    /\ [][C4_StepKeeps]_vars
    /\ (pc = "loop" ~> pc = "returned")

C4_Witness ==
    /\ pc = "returned"
    /\ Len(examples) = count
    /\ \E p, q \in Positions : origin[p] = "fallback" /\ origin[q] = "external" /\ p < q

\* C5: only the leading prediction of each example_id counts: every results
\* document with the same leading prediction for every id (later duplicates
\* dropped, changed or moved, predictions reordered) gives the same outcome.
C5_FirstMatchOnly ==
    epc = "done" =>
        \A other \in SeqsUpTo(Predictions, MaxPreds) :
            (\A id \in PredictionIds : Leading(other, id) = Leading(predictions, id))
                => evaluate_results(dataset, [predictions |-> other]) = outcome

C5_Witness ==
    /\ epc = "done"
    /\ outcome.status = "returned"
    /\ \E a, b \in 1..Len(predictions) :
          /\ a < b
          /\ predictions[a].example_id = predictions[b].example_id
          /\ predictions[a].predicted_verdict # predictions[b].predicted_verdict
          /\ \E k \in 1..Len(dataset.examples) :
                dataset.examples[k].id = predictions[a].example_id

\* C6: a returned report has total_examples <= len(dataset['examples']) and
\* total_examples <= len(results['predictions']), for the datasets the
\* synthesizer emits.
C6_TotalBounded ==
    (epc = "done" /\ outcome.status = "returned") =>
        /\ outcome.report.total_examples <= Len(dataset.examples)
        /\ outcome.report.total_examples <= Len(predictions)

\* C7: every example has metadata.difficulty in {easy, medium, hard},
\* whatever the external generator answered.
C7_DifficultyValid ==
    \A p \in Positions : examples[p].metadata.difficulty \in Difficulties

\* C8: a report returned for at least one matched pair carries the counts
\* over the matched pairs, total_examples = number of matched pairs,
\* accuracy = (TP+TN)/total, precision = TP/(TP+FP) or 0, recall =
\* TP/(TP+FN) or 0.
C8_CountsMatchPairs ==
    (epc = "done" /\ outcome.status = "returned" /\ MatchedPos # {}) =>
        LET r  == outcome.report
            tp == PairCount(TRUE, TRUE)
            fp == PairCount(FALSE, TRUE)
            tn == PairCount(FALSE, FALSE)
            fn == PairCount(TRUE, FALSE)
        IN  /\ r.true_positives = tp
            /\ r.false_positives = fp
            /\ r.true_negatives = tn
            /\ r.false_negatives = fn
            /\ r.total_examples = Cardinality(MatchedPos)
            /\ r.true_positives + r.false_positives
                 + r.true_negatives + r.false_negatives = r.total_examples
            /\ r.accuracy.num * r.total_examples = (tp + tn) * r.accuracy.den
            /\ IF tp + fp = 0 THEN r.precision.num = 0
               ELSE r.precision.num * (tp + fp) = tp * r.precision.den
            /\ IF tp + fn = 0 THEN r.recall.num = 0
               ELSE r.recall.num * (tp + fn) = tp * r.recall.den

C8_Witness ==
    /\ epc = "done"
    /\ outcome.status = "returned"
    /\ outcome.report.true_positives = 1
    /\ outcome.report.false_positives = 1
    /\ outcome.report.total_examples = 2

\* C9: with no dataset example matched by a prediction, evaluate_results
\* returns the report with every rate 0.0 and every count 0.
C9_EmptyJoinZeroReport ==
    (epc = "done" /\ MatchedPos = {}) =>
        /\ outcome.status = "returned"
        /\ outcome.report.accuracy.num = 0
        /\ outcome.report.precision.num = 0
        /\ outcome.report.recall.num = 0
        /\ outcome.report.f1_score.num = 0
        /\ outcome.report.true_positives = 0
        /\ outcome.report.false_positives = 0
        /\ outcome.report.true_negatives = 0
        /\ outcome.report.false_negatives = 0
        /\ outcome.report.total_examples = 0

C9_Witness ==
    /\ epc = "done"
    /\ Len(dataset.examples) >= 1
    /\ Len(predictions) >= 1
    /\ MatchedPos = {}
    /\ outcome.status = "returned"

\* C10: the example placed at a position whose request failed is the
\* element at that position of generate_mock_examples(count).
C10_FallbackIsMockAtPosition ==
    \A p \in Positions :
        origin[p] = "fallback" => examples[p] = generate_mock_examples(count)[p]
====
